---- MODULE Spec2Model ----
(***************************************************************************)
(* Model of the useVideoGenerator hook (hooks/useVideoGenerator).          *)
(*                                                                         *)
(* Time.  The frame loop adds frameDuration = 1000/30 ms to overallTime    *)
(* per rendered frame and compares overallTime/1000 with the settings,     *)
(* which are in seconds.  The model counts time in frame steps (1/30 s):   *)
(* overallTime is the number of steps added so far, and durationPerImage   *)
(* and transitionDuration are given in the same unit, so every comparison  *)
(* of the code is an integer comparison here.                              *)
(*                                                                         *)
(* React.  A handler runs to completion, then the component re-renders.    *)
(* cleanup is useCallback(..., [videoUrl]) and the unmount effect depends  *)
(* on [cleanup]: whenever a render commits a different videoUrl, the       *)
(* destructor of the previous effect runs the previous cleanup, whose      *)
(* closure still holds the previous videoUrl.  Every action below ends     *)
(* with that re-render (Rerender).                                         *)
(*                                                                         *)
(* Platform.  MediaRecorder.stop() sets state to inactive at once and      *)
(* queues the task that fires dataavailable and then stop.                 *)
(* requestAnimationFrame callbacks that are pending when a frame begins    *)
(* all run in that frame, in the order they were requested.                *)
(*                                                                         *)
(* Drawing.  The pixels drawFrame puts on the canvas are not state of the  *)
(* hook.  What it draws is kept per frame as the image index and the       *)
(* alphas (frames); the source and destination rectangles that             *)
(* applyKenBurnsAndDraw computes are a function of the image, the          *)
(* settings and progressInImage alone, and GeometrySpec applies that       *)
(* function to inputs drawn from small sets, in exact rational arithmetic. *)
(***************************************************************************)
EXTENDS Integers, Sequences, FiniteSets, TLC

\* ---------------------------------------------------------------- bounds
MaxSessions == 2
MaxImages == 2
MaxDuration == 2
MaxTransition == 1
MaxRevoke == 3
\* sessions started in a row in OverlapSpec
OverlapSessions == 3
\* images, durationPerImage and transitionDuration of SoloSpec
SoloImages == 3
SoloDuration == 4
SoloTransition == 3
\* longest side of an image and of the canvas in GeometrySpec
MaxSide == 3

\* frameDuration = 1000 / 30: frame steps per second
FramesPerSecond == 30
\* the application's default durationPerImage and transitionDuration, in seconds
DefaultDurationPerImage == 5
DefaultTransitionDuration == 1

\* canvas sizes offered to generateVideo (0 stands for a non-positive size)
Widths == {0, 16}
Heights == {9}

Null == "null"
NoUrl == 0
NoRef == 0

\* the browsers tried: without MediaRecorder; recording MP4; with a MediaRecorder that
\* supports neither MIME type; with a canvas that gives no 2d context
Browsers == {"none", "mp4", "neither", "no2d"}

\* sizes of the chunk a recorder delivers when it stops
ChunkSizes == {1}

\* ------------------------------------------------------------- variables
VARIABLES
  isGenerating,         \* useState(false)
  progress,             \* useState({percentage: 0, currentTask: ''})
  videoUrl,             \* useState(null): id of the object URL, NoUrl for null
  error,                \* useState(null)
  generatedMimeType,    \* useState('')
  mediaRecorderRef,     \* useRef: session whose recorder is held, NoRef for null
  canvasRef,            \* useRef: the canvas last stored
  animationFrameIdRef,  \* useRef: session that made the request held, NoRef for null
  recordedChunksRef,    \* useRef: the chunks, each named by the recorder it came from
  sessions,             \* one entry per generateVideo call that created a recorder: its closure
  recorders,            \* the MediaRecorder of each session
  urls,                 \* the object URL each recorder's onstop created
  rafQueue,             \* pending requestAnimationFrame callbacks, in request order
  frames,               \* the last frame each session's drawFrame rendered
  browser,              \* what the browser's MediaRecorder supports
  settings,             \* the hook's settings argument
  drawImageCall         \* the last ctx.drawImage call applyKenBurnsAndDraw made (GeometrySpec)

vars == <<isGenerating, progress, videoUrl, error, generatedMimeType, mediaRecorderRef,
          canvasRef, animationFrameIdRef, recordedChunksRef, sessions, recorders, urls,
          rafQueue, frames, browser, settings, drawImageCall>>

\* The whole state as one record, so that a handler is a function on states.
St ==
  [isGenerating |-> isGenerating, progress |-> progress, videoUrl |-> videoUrl,
   error |-> error, generatedMimeType |-> generatedMimeType,
   mediaRecorderRef |-> mediaRecorderRef, canvasRef |-> canvasRef,
   animationFrameIdRef |-> animationFrameIdRef, recordedChunksRef |-> recordedChunksRef,
   sessions |-> sessions, recorders |-> recorders, urls |-> urls, rafQueue |-> rafQueue,
   frames |-> frames, browser |-> browser, settings |-> settings]

Commit(st) ==
  /\ isGenerating' = st.isGenerating
  /\ progress' = st.progress
  /\ videoUrl' = st.videoUrl
  /\ error' = st.error
  /\ generatedMimeType' = st.generatedMimeType
  /\ mediaRecorderRef' = st.mediaRecorderRef
  /\ canvasRef' = st.canvasRef
  /\ animationFrameIdRef' = st.animationFrameIdRef
  /\ recordedChunksRef' = st.recordedChunksRef
  /\ sessions' = st.sessions
  /\ recorders' = st.recorders
  /\ urls' = st.urls
  /\ rafQueue' = st.rafQueue
  /\ frames' = st.frames
  /\ browser' = st.browser
  /\ settings' = st.settings
  /\ drawImageCall' = drawImageCall

Min(a, b) == IF a <= b THEN a ELSE b

\* ------------------------------------------------------------- timeline
\* generateVideo: totalDuration
TotalDuration(n, D, T) == n * D + (IF n > 1 THEN (n - 1) * T ELSE 0)

\* drawFrame: imageDisplayStartTime of image i (0-based)
ImageDisplayStartTime(i, D, T) == i * D - (IF i > 0 THEN T ELSE 0)

\* the window of image i ending when its own duration is over, without the time of
\* the transition to its successor
ImageDisplayEndTimeWithoutTransition(i, n, D, T) == ImageDisplayStartTime(i, D, T) + D

\* drawFrame: imageDisplayEndTime of image i (0-based) among n
ImageDisplayEndTime(i, n, D, T) ==
  ImageDisplayStartTime(i, D, T) + D + (IF i < n - 1 THEN T ELSE 0)

\* the window test with its end included
InWindowClosed(t, i, n, D, T) ==
  t >= ImageDisplayStartTime(i, D, T) /\ t <= ImageDisplayEndTime(i, n, D, T)

InWindow(t, i, n, D, T) ==
  t >= ImageDisplayStartTime(i, D, T) /\ t < ImageDisplayEndTime(i, n, D, T)

\* the for loop without its break: the last image whose window holds t
CurrentImageIndexLastMatch(t, n, D, T) ==
  LET hits == {i \in 0..(n - 1) : InWindow(t, i, n, D, T)}
  IN IF hits = {} THEN -1 ELSE CHOOSE i \in hits : \A j \in hits : i >= j

\* drawFrame: the for loop; the first image whose window holds t, -1 when none does
CurrentImageIndex(t, n, D, T) ==
  LET hits == {i \in 0..(n - 1) : InWindow(t, i, n, D, T)}
  IN IF hits = {} THEN -1 ELSE CHOOSE i \in hits : \A j \in hits : i <= j

\* a rational as <<numerator, denominator>>, denominator > 0
One == <<1, 1>>
Zero == <<0, 1>>
\* Math.min(1, a / b) for a >= 0, b >= 0; a / 0 is Infinity for a > 0
Min1(a, b) == IF a >= b THEN One ELSE <<a, b>>
OneMinus(q) == <<q[2] - q[1], q[2]>>

FadingOut(timeInto, idx, n, D) == timeInto > D /\ idx < n - 1
FadingIn(timeInto, idx, T) == timeInto < T /\ idx > 0

\* drawFrame: Math.min(1, transitionProgress)
TransitionProgress(timeInto, idx, D, T) ==
  IF timeInto > D THEN Min1(timeInto - D, T)
  ELSE IF FadingIn(timeInto, idx, T) THEN Min1(timeInto, T)
  ELSE One

\* drawFrame leaving the current image opaque while the next one fades in over it
AlphaOpaqueUnderNext(timeInto, idx, n, D, T) ==
  IF FadingOut(timeInto, idx, n, D) THEN One
  ELSE IF FadingIn(timeInto, idx, T) THEN TransitionProgress(timeInto, idx, D, T)
  ELSE One

\* drawFrame: alpha of the current image
Alpha(timeInto, idx, n, D, T) ==
  IF FadingOut(timeInto, idx, n, D) THEN OneMinus(TransitionProgress(timeInto, idx, D, T))
  ELSE IF FadingIn(timeInto, idx, T) THEN TransitionProgress(timeInto, idx, D, T)
  ELSE One

\* drawFrame: percentage = Math.min(100, overallTime / (totalDuration * 1000) * 100)
Percentage(overallTime, total) ==
  IF overallTime >= total THEN <<100, 1>> ELSE <<100 * overallTime, total>>

\* ------------------------------------------------------------ platform
\* MediaRecorder.stop(): inactive at once, the dataavailable/stop task queued
StopRecorder(rec) ==
  [rec EXCEPT !.state = "inactive", !.stopPending = TRUE, !.stopCalls = @ + 1]

\* mediaRecorderRef.current.stop() behind its guard
\* (mediaRecorderRef.current && mediaRecorderRef.current.state === 'recording')
StopIfRecording(st) ==
  LET r == st.mediaRecorderRef
  IN IF r # NoRef /\ st.recorders[r].state = "recording"
     THEN [st EXCEPT !.recorders[r] = StopRecorder(@)]
     ELSE st

\* cancelAnimationFrame(id): the request leaves the queue if it is still pending
CancelAnimationFrame(st, s) ==
  [st EXCEPT !.rafQueue = SelectSeq(@, LAMBDA x : x # s),
             !.sessions[s].pc = IF \E k \in 1..Len(st.rafQueue) : st.rafQueue[k] = s
                                THEN "cancelled" ELSE @]

\* URL.revokeObjectURL(url)
RevokeObjectURL(st, u) ==
  [st EXCEPT !.urls[u].revoked = Min(@ + 1, MaxRevoke)]

\* --------------------------------------------------------------- cleanup
\* cleanup() without the state check of its stop: it stops whatever recorder the ref holds
CleanupStopsInAnyState(st, url) ==
  LET a == st.animationFrameIdRef
      s1 == IF a # NoRef
            THEN [CancelAnimationFrame(st, a) EXCEPT !.animationFrameIdRef = NoRef]
            ELSE st
      r == s1.mediaRecorderRef
      s2 == IF r # NoRef
            THEN [s1 EXCEPT !.recorders[r] = [StopRecorder(@) EXCEPT !.cancelled = TRUE]]
            ELSE s1
      s3 == [s2 EXCEPT !.mediaRecorderRef = NoRef, !.recordedChunksRef = <<>>]
  IN IF url # NoUrl
     THEN [RevokeObjectURL(s3, url) EXCEPT !.videoUrl = NoUrl]
     ELSE s3

\* cleanup() clearing videoUrl without revoking the object URL
CleanupWithoutRevoke(st, url) ==
  LET a == st.animationFrameIdRef
      s1 == IF a # NoRef
            THEN [CancelAnimationFrame(st, a) EXCEPT !.animationFrameIdRef = NoRef]
            ELSE st
      r == s1.mediaRecorderRef
      s2 == IF r # NoRef /\ s1.recorders[r].state = "recording"
            THEN [StopIfRecording(s1) EXCEPT !.recorders[r].cancelled = TRUE]
            ELSE s1
      s3 == [s2 EXCEPT !.mediaRecorderRef = NoRef, !.recordedChunksRef = <<>>]
  IN IF url # NoUrl THEN [s3 EXCEPT !.videoUrl = NoUrl] ELSE s3

\* cleanup(), run from a closure whose videoUrl is url
Cleanup(st, url) ==
  LET a == st.animationFrameIdRef
      s1 == IF a # NoRef
            THEN [CancelAnimationFrame(st, a) EXCEPT !.animationFrameIdRef = NoRef]
            ELSE st
      r == s1.mediaRecorderRef
      s2 == IF r # NoRef /\ s1.recorders[r].state = "recording"
            THEN [StopIfRecording(s1) EXCEPT !.recorders[r].cancelled = TRUE]
            ELSE s1
      s3 == [s2 EXCEPT !.mediaRecorderRef = NoRef, !.recordedChunksRef = <<>>]
  IN IF url # NoUrl
     THEN [RevokeObjectURL(s3, url) EXCEPT !.videoUrl = NoUrl]
     ELSE s3

\* React.useEffect(() => () => cleanup(), [cleanup]): the render after a handler.
\* prevUrl is the videoUrl of the render committed before; while the state differs
\* from it, the previous effect's destructor runs the previous cleanup.
\* the cleanup effect with no dependency on cleanup: it runs on unmount only, never
\* after a render
EffectCleanupOnUnmountOnly(st, url) == st

\* the cleanup() the effect's destructor runs; a recorder it stops is marked as stopped
\* by the effect, not by a caller
EffectCleanup(st, url) ==
  LET r == st.mediaRecorderRef
      c == Cleanup(st, url)
  IN IF r # NoRef /\ st.recorders[r].state = "recording"
     THEN [c EXCEPT !.recorders[r].stoppedByEffect = TRUE]
     ELSE c

RECURSIVE Rerender(_, _)
Rerender(prevUrl, st) ==
  IF st.videoUrl = prevUrl THEN st
  ELSE Rerender(st.videoUrl, EffectCleanup(st, prevUrl))

\* ----------------------------------------------------------------- types
NoCanvas == [width |-> -1, height |-> -1]
NoFrame == [time |-> -1, index |-> -1, fallback |-> FALSE, timeInto |-> -1,
            alpha |-> One, drawNext |-> FALSE, nextAlpha |-> Zero, count |-> 0,
            ops |-> <<>>]

\* the canvas calls of a frame, in the order they are made
FillRect(fillStyle) == [op |-> "fillRect", fillStyle |-> fillStyle, image |-> -1, alpha |-> One]
DrawImage(image, alpha) == [op |-> "drawImage", fillStyle |-> "", image |-> image, alpha |-> alpha]
Black == "#000000"
\* no ctx.drawImage call recorded
NoDrawImage == [made |-> FALSE]
Task(kind, image, of) == [kind |-> kind, image |-> image, of |-> of]

\* getSupportedMimeType()
GetSupportedMimeType(b) == IF b = "mp4" THEN "video/mp4" ELSE "video/webm"

\* new MediaRecorder(stream, {mimeType}) throws for a type the browser cannot record
ConstructorThrows(b) == b = "neither"

\* canvas.getContext('2d') gives a context
HasContext(b) == b # "no2d"

\* --------------------------------------------------------- generateVideo
ErrNoImages == "No images selected."
ErrNoMediaRecorder == "MediaRecorder API not supported in this browser."
ErrNoContext == "Failed to get canvas context."
ErrConstructor == "Failed to initialize MediaRecorder."
ErrRecorder == "MediaRecorder error."

\* the images check moved below cleanup(): an empty call would tear the session down
RejectNoImagesAfterCleanup(st) == [Cleanup(st, st.videoUrl) EXCEPT !.error = ErrNoImages]

\* generateVideo: if (images.length === 0) { setError(...); return; }
RejectNoImages(st) == [st EXCEPT !.error = ErrNoImages]

\* the MediaRecorder check made after setIsGenerating(true), returning without resetting it
RejectNoMediaRecorderStillGenerating(st) ==
  [st EXCEPT !.error = ErrNoMediaRecorder, !.isGenerating = TRUE]

\* generateVideo: if (typeof MediaRecorder === 'undefined') { setError(...); return; }
RejectNoMediaRecorder(st) == [st EXCEPT !.error = ErrNoMediaRecorder]

\* generateVideo: cleanup(); setIsGenerating(true); setError(null); setProgress(...);
\* setGeneratedMimeType(actualMimeType)
BeginGeneration(st) ==
  [Cleanup(st, st.videoUrl) EXCEPT
     !.isGenerating = TRUE,
     !.error = Null,
     !.progress = [percentage |-> Zero, currentTask |-> Task("Initializing...", 0, 0)],
     !.generatedMimeType = GetSupportedMimeType(st.browser)]

\* generateVideo: new MediaRecorder(...), recordedChunksRef.current = [], the three
\* handlers, start(), totalDuration, overallTime = 0, and the await of the images.
\* closureUrl is the videoUrl held by the cleanup this call (and its onerror) closes over.
StartRecorder(st, n, closureUrl) ==
  LET s == Len(st.sessions) + 1
      D == st.settings.durationPerImage
      T == st.settings.transitionDuration
  IN [st EXCEPT
        !.mediaRecorderRef = s,
        !.recordedChunksRef = <<>>,
        !.sessions = Append(@, [n |-> n, durationPerImage |-> D, transitionDuration |-> T,
                                totalDuration |-> TotalDuration(n, D, T),
                                overallTime |-> 0, pc |-> "awaiting",
                                closureUrl |-> closureUrl]),
        !.recorders = Append(@, [state |-> "recording", stopPending |-> FALSE,
                                 stopCalls |-> 0, cancelled |-> FALSE, errored |-> FALSE,
                                 stoppedByEffect |-> FALSE]),
        !.urls = Append(@, [created |-> FALSE, revoked |-> 0, blob |-> <<>>]),
        !.frames = Append(@, NoFrame)]

\* generateVideo, up to its await
GenerateVideoBody(st, n) ==
  IF n = 0 THEN RejectNoImages(st)
  ELSE IF st.browser = "none" THEN RejectNoMediaRecorder(st)
  ELSE LET s1 == BeginGeneration(st)
       IN IF ~HasContext(st.browser)
          THEN [s1 EXCEPT !.error = ErrNoContext, !.isGenerating = FALSE]
          ELSE LET s2 == [s1 EXCEPT !.canvasRef = [width |-> st.settings.videoWidth,
                                                   height |-> st.settings.videoHeight]]
               IN IF ConstructorThrows(st.browser)
                  THEN [s2 EXCEPT !.error = ErrConstructor, !.isGenerating = FALSE]
                  ELSE StartRecorder(s2, n, st.videoUrl)

CreatesSession(n) ==
  n > 0 /\ browser # "none" /\ HasContext(browser) /\ ~ConstructorThrows(browser)

\* generateVideo(images) with a number of images among counts, while fewer than max
\* sessions exist
GenerateVideoWith(counts, max) ==
  \E n \in counts :
    /\ CreatesSession(n) => Len(sessions) < max
    /\ Commit(Rerender(videoUrl, GenerateVideoBody(St, n)))

GenerateVideo == GenerateVideoWith(0..MaxImages, MaxSessions)

\* generateVideo after the await: every image loaded; drawFrame is defined and requested
ImagesLoadedBody(st, s) ==
  [st EXCEPT !.sessions[s].pc = "scheduled",
             !.rafQueue = Append(@, s),
             !.animationFrameIdRef = s]

ImagesLoaded(s) ==
  /\ sessions[s].pc = "awaiting"
  /\ Commit(Rerender(videoUrl, ImagesLoadedBody(St, s)))

\* generateVideo after the await: an image's onerror rejects Promise.all, and the
\* promise generateVideo returned is rejected; nothing catches it
DecodeFailedBody(st, s) == [st EXCEPT !.sessions[s].pc = "rejected"]

DecodeFailed(s) ==
  /\ sessions[s].pc = "awaiting"
  /\ Commit(Rerender(videoUrl, DecodeFailedBody(St, s)))

\* ------------------------------------------------------------- drawFrame
\* drawFrame drawing the next image of a crossfade before the current one
RenderedFrameNextImageFirst(t, n, D, T, count) ==
  LET found == CurrentImageIndex(t, n, D, T)
      fallback == found = -1
      idx == IF fallback THEN n - 1 ELSE found
      timeInto == IF fallback THEN D ELSE t - ImageDisplayStartTime(idx, D, T)
      next == FadingOut(timeInto, idx, n, D)
      alpha == Alpha(timeInto, idx, n, D, T)
      nextAlpha == IF next THEN TransitionProgress(timeInto, idx, D, T) ELSE Zero
  IN [time |-> t, index |-> idx, fallback |-> fallback, timeInto |-> timeInto,
      alpha |-> alpha, drawNext |-> next, nextAlpha |-> nextAlpha, count |-> count,
      ops |-> <<FillRect(Black)>>
              \o (IF next THEN <<DrawImage(idx + 1, nextAlpha)>> ELSE <<>>)
              \o <<DrawImage(idx, alpha)>>]

\* drawFrame: the frame drawn at virtual time t by a closure with n, D, T: fillRect
\* in black, the current image at alpha, then the next image while fading out
RenderedFrame(t, n, D, T, count) ==
  LET found == CurrentImageIndex(t, n, D, T)
      fallback == found = -1
      idx == IF fallback THEN n - 1 ELSE found
      timeInto == IF fallback THEN D ELSE t - ImageDisplayStartTime(idx, D, T)
      next == FadingOut(timeInto, idx, n, D)
      alpha == Alpha(timeInto, idx, n, D, T)
      nextAlpha == IF next THEN TransitionProgress(timeInto, idx, D, T) ELSE Zero
  IN [time |-> t, index |-> idx, fallback |-> fallback, timeInto |-> timeInto,
      alpha |-> alpha, drawNext |-> next, nextAlpha |-> nextAlpha, count |-> count,
      ops |-> <<FillRect(Black), DrawImage(idx, alpha)>>
              \o (IF next THEN <<DrawImage(idx + 1, nextAlpha)>> ELSE <<>>)]

\* drawFrame: the guard at its top
RecorderIsRecording(st) ==
  st.mediaRecorderRef # NoRef /\ st.recorders[st.mediaRecorderRef].state = "recording"

\* drawFrame advancing the clock by the time that passed since the last callback: two
\* steps here, as when the display skipped a frame
AdvanceClockByElapsedTime(st, s, idx) ==
  LET c == st.sessions[s]
      ot == c.overallTime + 2
      s1 == [st EXCEPT
               !.sessions[s].overallTime = ot,
               !.progress = [percentage |-> Percentage(ot, c.totalDuration),
                             currentTask |-> Task("Encoding frame for image", idx + 1, c.n)]]
  IN IF ot < c.totalDuration
     THEN [s1 EXCEPT !.rafQueue = Append(@, s), !.animationFrameIdRef = s]
     ELSE [StopIfRecording(s1) EXCEPT !.sessions[s].pc = "ended"]

\* drawFrame reporting the progress before it advances the clock
AdvanceClockAfterProgress(st, s, idx) ==
  LET c == st.sessions[s]
      ot == c.overallTime + 1
      s1 == [st EXCEPT
               !.sessions[s].overallTime = ot,
               !.progress = [percentage |-> Percentage(c.overallTime, c.totalDuration),
                             currentTask |-> Task("Encoding frame for image", idx + 1, c.n)]]
  IN IF ot < c.totalDuration
     THEN [s1 EXCEPT !.rafQueue = Append(@, s), !.animationFrameIdRef = s]
     ELSE [StopIfRecording(s1) EXCEPT !.sessions[s].pc = "ended"]

\* drawFrame: overallTime += frameDuration; setProgress(...); then either request the
\* next frame or stop the recorder
AdvanceClock(st, s, idx) ==
  LET c == st.sessions[s]
      ot == c.overallTime + 1
      s1 == [st EXCEPT
               !.sessions[s].overallTime = ot,
               !.progress = [percentage |-> Percentage(ot, c.totalDuration),
                             currentTask |-> Task("Encoding frame for image", idx + 1, c.n)]]
  IN IF ot < c.totalDuration
     THEN [s1 EXCEPT !.rafQueue = Append(@, s), !.animationFrameIdRef = s]
     ELSE [StopIfRecording(s1) EXCEPT !.sessions[s].pc = "ended"]

\* drawFrame, one call of session s's closure
DrawFrame(st, s) ==
  LET c == st.sessions[s]
      t == c.overallTime
  IN IF ~RecorderIsRecording(st)
     THEN [st EXCEPT !.sessions[s].pc = "ended"]
     ELSE IF CurrentImageIndex(t, c.n, c.durationPerImage, c.transitionDuration) = -1
             /\ t >= c.totalDuration
     THEN [StopIfRecording(st) EXCEPT !.sessions[s].pc = "ended"]
     ELSE LET f == RenderedFrame(t, c.n, c.durationPerImage, c.transitionDuration,
                                 st.frames[s].count + 1)
          IN AdvanceClock([st EXCEPT !.frames[s] = f], s, f.index)

\* one animation frame: the callbacks pending at its start run in request order
RECURSIVE RunCallbacks(_, _)
RunCallbacks(st, q) ==
  IF q = <<>> THEN st ELSE RunCallbacks(DrawFrame(st, Head(q)), Tail(q))

AnimationFrame ==
  /\ rafQueue # <<>>
  /\ Commit(Rerender(videoUrl, RunCallbacks([St EXCEPT !.rafQueue = <<>>], rafQueue)))

\* ------------------------------------------------------- recorder events
\* ondataavailable: if (event.data.size > 0) recordedChunksRef.current.push(event.data)
OnDataAvailable(st, s, size) ==
  IF size > 0 THEN [st EXCEPT !.recordedChunksRef = Append(@, s)] ELSE st

\* onstop: the Blob of the chunks, its object URL, setVideoUrl, setIsGenerating(false),
\* setProgress(100, 'Video generated!')
OnStop(st, s) ==
  [st EXCEPT !.urls[s] = [created |-> TRUE, revoked |-> 0, blob |-> st.recordedChunksRef],
             !.videoUrl = s,
             !.isGenerating = FALSE,
             !.progress = [percentage |-> <<100, 1>>,
                           currentTask |-> Task("Video generated!", 0, 0)]]

\* the task stop() queued: dataavailable, then stop
RecorderStopEvent(s) ==
  \E size \in ChunkSizes :
    /\ recorders[s].stopPending
    /\ Commit(Rerender(videoUrl,
         OnStop(OnDataAvailable([St EXCEPT !.recorders[s].stopPending = FALSE], s, size), s)))

\* onerror: setError(...); setIsGenerating(false); cleanup()
OnError(st, s) ==
  Cleanup([st EXCEPT !.error = ErrRecorder, !.isGenerating = FALSE],
          st.sessions[s].closureUrl)

\* the recorder of session s fails while recording.  The platform either delivers the
\* error with the recorder still recording, or has inactivated it (its stop task
\* queued) by the time the handler runs.
RecorderError(s) ==
  \E inactivated \in BOOLEAN :
    /\ recorders[s].state = "recording"
    /\ LET st0 == [St EXCEPT !.recorders[s].errored = TRUE]
           st1 == IF inactivated
                  THEN [st0 EXCEPT !.recorders[s].state = "inactive",
                                   !.recorders[s].stopPending = TRUE]
                  ELSE st0
       IN Commit(Rerender(videoUrl, OnError(st1, s)))

\* cleanup() called by the component (or by the unmount effect)
CleanupCall ==
  \E url \in {videoUrl} :
    Commit(Rerender(url, Cleanup(St, url)))

\* ------------------------------------------------------------------ spec
\* the state after the first render, in a browser of bs with settings of ss
InitWith(bs, ss) ==
  /\ isGenerating = FALSE
  /\ progress = [percentage |-> Zero, currentTask |-> Task("", 0, 0)]
  /\ videoUrl = NoUrl
  /\ error = Null
  /\ generatedMimeType = ""
  /\ mediaRecorderRef = NoRef
  /\ canvasRef = NoCanvas
  /\ animationFrameIdRef = NoRef
  /\ recordedChunksRef = <<>>
  /\ sessions = <<>>
  /\ recorders = <<>>
  /\ urls = <<>>
  /\ rafQueue = <<>>
  /\ frames = <<>>
  /\ browser \in bs
  /\ settings \in ss
  /\ drawImageCall = NoDrawImage

Init ==
  InitWith(Browsers,
           [durationPerImage : 0..MaxDuration, transitionDuration : 0..MaxTransition,
            videoWidth : Widths, videoHeight : Heights])

Ids == 1..Len(sessions)

Next ==
  \/ GenerateVideo
  \/ \E s \in Ids : ImagesLoaded(s)
  \/ \E s \in Ids : DecodeFailed(s)
  \/ AnimationFrame
  \/ \E s \in Ids : RecorderStopEvent(s)
  \/ \E s \in Ids : RecorderError(s)
  \/ CleanupCall

Spec == Init /\ [][Next]_vars

\* Calls of generateVideo that follow one another while earlier sessions are still
\* loading or rendering, with valid settings, in a browser that records; nothing fails
\* and the component does not call cleanup().
OverlapInit ==
  InitWith({"mp4"}, {[durationPerImage |-> 2, transitionDuration |-> 1,
                      videoWidth |-> 16, videoHeight |-> 9]})

OverlapNext ==
  \/ GenerateVideoWith(1..MaxImages, OverlapSessions)
  \/ \E s \in Ids : ImagesLoaded(s)
  \/ AnimationFrame
  \/ \E s \in Ids : RecorderStopEvent(s)

OverlapSpec == OverlapInit /\ [][OverlapNext]_vars

\* One session that runs alone to the end of its timeline: one generateVideo call in a
\* browser that records, the images load, the frames are rendered, the recorder's stop
\* event arrives.  The settings are the small ones and the application's defaults
\* (5 s per image, 1 s of transition, in frame steps).
DefaultSettings ==
  [durationPerImage |-> DefaultDurationPerImage * FramesPerSecond,
   transitionDuration |-> DefaultTransitionDuration * FramesPerSecond,
   videoWidth |-> 16, videoHeight |-> 9]

SoloSettings ==
  [durationPerImage : 1..SoloDuration, transitionDuration : 0..SoloTransition,
   videoWidth : Widths \ {0}, videoHeight : Heights] \cup {DefaultSettings}

SoloInit == InitWith({"mp4"}, SoloSettings)

SoloNext ==
  \/ GenerateVideoWith(1..SoloImages, 1)
  \/ \E s \in Ids : ImagesLoaded(s)
  \/ AnimationFrame
  \/ \E s \in Ids : RecorderStopEvent(s)

SoloSpec == SoloInit /\ [][SoloNext]_vars

\* -------------------------------------------------- applyKenBurnsAndDraw
\* Numbers are exact rationals <<numerator, denominator>> in lowest terms.
RECURSIVE Gcd(_, _)
Gcd(a, b) == IF b = 0 THEN a ELSE Gcd(b, a % b)
Abs(a) == IF a < 0 THEN -a ELSE a
Norm(n, d) ==
  LET g == Gcd(Abs(n), Abs(d))
      sg == IF d < 0 THEN -1 ELSE 1
  IN <<(sg * n) \div g, (sg * d) \div g>>
Num(k) == <<k, 1>>
Plus(a, b) == Norm(a[1] * b[2] + b[1] * a[2], a[2] * b[2])
Minus(a, b) == Norm(a[1] * b[2] - b[1] * a[2], a[2] * b[2])
Times(a, b) == Norm(a[1] * b[1], a[2] * b[2])
Over(a, b) == Norm(a[1] * b[2], a[2] * b[1])
Neg(a) == <<-a[1], a[2]>>
Less(a, b) == a[1] * b[2] < b[1] * a[2]
Half(a) == Over(a, Num(2))

PanDirections ==
  {"random", "zoom-in", "zoom-out", "pan-left", "pan-right", "pan-up", "pan-down"}
ImageFits == {"cover", "contain"}
\* kenBurns.zoomFactor: 1, the default 1.15, and 2 (the range of the form's input)
ZoomFactors == {<<1, 1>>, <<23, 20>>, <<2, 1>>}
\* progressInImage = Math.min(1, timeIntoCurrentImage / durationPerImage)
Progresses == {<<0, 1>>, <<1, 2>>, <<1, 1>>}
Sizes == [width : 1..MaxSide, height : 1..MaxSide]
KenBurnsSettings ==
  [enabled : BOOLEAN, zoomFactor : ZoomFactors, panDirection : PanDirections]

\* applyKenBurnsAndDraw: const maxPanOffset = 0.1 * sWidth, whatever the direction
MaxPanOffset(panDirection, sWidth, sHeight) == Over(sWidth, Num(10))

\* applyKenBurnsAndDraw: the source and destination rectangles of the fit mode
FitRect(img, imageFit, canvasWidth, canvasHeight) ==
  LET iw == Num(img.width)
      ih == Num(img.height)
      cw == Num(canvasWidth)
      ch == Num(canvasHeight)
      canvasAspect == Over(cw, ch)
      imgAspect == Over(iw, ih)
      wider == Less(canvasAspect, imgAspect)
      whole == [sx |-> Num(0), sy |-> Num(0), sWidth |-> iw, sHeight |-> ih,
                dx |-> Num(0), dy |-> Num(0), dWidth |-> cw, dHeight |-> ch]
  IN IF imageFit = "cover"
     THEN IF wider
          THEN [whole EXCEPT !.sWidth = Times(ih, canvasAspect),
                             !.sx = Half(Minus(iw, Times(ih, canvasAspect)))]
          ELSE [whole EXCEPT !.sHeight = Over(iw, canvasAspect),
                             !.sy = Half(Minus(ih, Over(iw, canvasAspect)))]
     ELSE IF wider
          THEN [whole EXCEPT !.dHeight = Over(cw, imgAspect),
                             !.dy = Half(Minus(ch, Over(cw, imgAspect)))]
          ELSE [whole EXCEPT !.dWidth = Times(ch, imgAspect),
                             !.dx = Half(Minus(cw, Times(ch, imgAspect)))]

\* applyKenBurnsAndDraw: const zoom = 1 + (kenBurns.zoomFactor - 1) * progressInImage
Zoom(kenBurns, progressInImage) ==
  Plus(Num(1), Times(Minus(kenBurns.zoomFactor, Num(1)), progressInImage))

\* applyKenBurnsAndDraw: the arguments of its ctx.drawImage call
ApplyKenBurnsAndDraw(img, currentSettings, progressInImage, canvasWidth, canvasHeight) ==
  LET kenBurns == currentSettings.kenBurns
      fit == FitRect(img, currentSettings.imageFit, canvasWidth, canvasHeight)
      zoom == Zoom(kenBurns, progressInImage)
      newSWidth == Over(fit.sWidth, zoom)
      newSHeight == Over(fit.sHeight, zoom)
      panX == Half(Minus(fit.sWidth, newSWidth))
      panY == Half(Minus(fit.sHeight, newSHeight))
      maxPanOffset == MaxPanOffset(kenBurns.panDirection, fit.sWidth, fit.sHeight)
      shift == Times(maxPanOffset, progressInImage)
      offsetX == IF kenBurns.panDirection = "pan-left" THEN Neg(shift)
                 ELSE IF kenBurns.panDirection = "pan-right" THEN shift
                 ELSE Num(0)
      offsetY == IF kenBurns.panDirection = "pan-up" THEN Neg(shift)
                 ELSE IF kenBurns.panDirection = "pan-down" THEN shift
                 ELSE Num(0)
  IN IF kenBurns.enabled
     THEN [fit EXCEPT !.sx = Plus(Plus(fit.sx, panX), offsetX),
                      !.sy = Plus(Plus(fit.sy, panY), offsetY),
                      !.sWidth = newSWidth,
                      !.sHeight = newSHeight]
     ELSE fit

\* one call of applyKenBurnsAndDraw, as drawFrame makes it for the current and for the
\* next image.  The call depends on its arguments only, so a behaviour makes one call.
ApplyKenBurnsAndDrawCall ==
  \E img \in Sizes, canvas \in Sizes, imageFit \in ImageFits,
     kenBurns \in KenBurnsSettings, progressInImage \in Progresses :
    /\ ~drawImageCall.made
    /\ drawImageCall' =
         [made |-> TRUE, img |-> img, canvas |-> canvas, imageFit |-> imageFit,
          kenBurns |-> kenBurns, progressInImage |-> progressInImage,
          zoom |-> Zoom(kenBurns, progressInImage),
          rect |-> ApplyKenBurnsAndDraw(img, [kenBurns |-> kenBurns, imageFit |-> imageFit],
                                        progressInImage, canvas.width, canvas.height)]
    /\ UNCHANGED <<isGenerating, progress, videoUrl, error, generatedMimeType,
                   mediaRecorderRef, canvasRef, animationFrameIdRef, recordedChunksRef,
                   sessions, recorders, urls, rafQueue, frames, browser, settings>>

GeometryInit == InitWith({"mp4"}, {DefaultSettings})

GeometryNext == ApplyKenBurnsAndDrawCall

GeometrySpec == GeometryInit /\ [][GeometryNext]_vars

\* ---------------------------------------------------------------- claims
Latest == Len(sessions)

\* N >= 1 images, 0 <= T < D
ValidTimeline(c) ==
  c.n >= 1 /\ c.transitionDuration >= 0 /\ c.transitionDuration < c.durationPerImage

ValidSettings ==
  /\ settings.durationPerImage > 0
  /\ settings.transitionDuration < settings.durationPerImage
  /\ settings.videoWidth > 0
  /\ settings.videoHeight > 0

\* C1: a session whose recorder cleanup() stopped while it was recording produces no
\* output: its stop handler never creates an object URL and never sets videoUrl.
C1_CancelledProducesNoOutput ==
  \A s \in Ids : recorders[s].cancelled => ~urls[s].created

\* C2: when an image of the latest session fails to decode, the session is aborted and
\* the failure reported: error is set, isGenerating is false, the recorder is not
\* recording, no frame was rendered and no output was produced.
C2_DecodeFailureAborts ==
  \A s \in Ids :
    (s = Latest /\ sessions[s].pc = "rejected") =>
      /\ error # Null
      /\ ~isGenerating
      /\ recorders[s].state # "recording"
      /\ frames[s].count = 0
      /\ ~urls[s].created

\* C3: with N >= 1 and 0 <= T < D every rendered frame lies in some image's window:
\* the fallback that clamps to the last image is never taken.
C3_NoFallbackFrame ==
  \A s \in Ids : ValidTimeline(sessions[s]) => ~frames[s].fallback

\* C4: with N >= 2 and 0 < T < D the windows of images i and i+1 overlap by exactly
\* transitionDuration, for every i < N-1.
C4_OverlapIsTransition ==
  \A s \in Ids :
    LET c == sessions[s]
    IN (c.n >= 2 /\ c.transitionDuration > 0 /\ c.transitionDuration < c.durationPerImage) =>
         \A i \in 0..(c.n - 2) :
           ImageDisplayEndTime(i, c.n, c.durationPerImage, c.transitionDuration)
             - ImageDisplayStartTime(i + 1, c.durationPerImage, c.transitionDuration)
           = c.transitionDuration

\* C5: with durationPerImage <= 0, transitionDuration >= durationPerImage or a
\* non-positive canvas size, generateVideo allocates nothing: no canvas, no recorder,
\* isGenerating never true, no frame.
C5_InvalidSettingsRejected ==
  ~ValidSettings =>
    /\ canvasRef = NoCanvas
    /\ Ids = {}
    /\ ~isGenerating

\* C6: generateVideo with no images sets the error and touches nothing else: no canvas,
\* no recorder, no session; isGenerating, videoUrl, progress, the refs and the pending
\* frames are as they were.
C6_EmptyImagesOnlySetsError ==
  [][(error' = ErrNoImages /\ error # ErrNoImages) =>
       UNCHANGED <<isGenerating, progress, videoUrl, generatedMimeType, mediaRecorderRef,
                   canvasRef, animationFrameIdRef, recordedChunksRef, sessions, recorders,
                   urls, rafQueue, frames, browser, settings, drawImageCall>>]_vars

\* C6 witness: the empty call was made while an earlier output was exposed, and the
\* output is still there
C6_Witness ==
  error = ErrNoImages /\ videoUrl # NoUrl /\ ~isGenerating /\ urls[videoUrl].revoked = 0

\* C7: the frame loop of a session with valid settings that was not cancelled and whose
\* recorder reported no error ends only when its virtual time has reached
\* totalDuration, with its recorder stopped.
C7_LoopEndsAtTotalDuration ==
  \A s \in Ids :
    (/\ sessions[s].pc = "ended"
     /\ ValidSettings
     /\ ValidTimeline(sessions[s])
     /\ ~recorders[s].cancelled
     /\ ~recorders[s].errored) =>
      /\ sessions[s].overallTime >= sessions[s].totalDuration
      /\ recorders[s].state = "inactive"

\* C8: a session whose recorder reported an error is Failed for good: its stop handler
\* never reports success for it.
C8_FailedStaysFailed ==
  \A s \in Ids :
    recorders[s].errored =>
      /\ ~urls[s].created
      /\ (s = Latest => progress.currentTask.kind # "Video generated!")

\* C9: error and videoUrl are never both set.
C9_ArtifactOrError ==
  ~(error # Null /\ videoUrl # NoUrl)

\* C10: cleanup() run twice with no session started in between releases nothing twice:
\* no object URL is revoked a second time and no recorder is stopped a second time.
C10_CleanupTwiceReleasesOnce ==
  [][Len(sessions') = Len(sessions) =>
       \A u \in Ids :
         /\ (urls[u].created /\ urls'[u].created) => urls'[u].revoked <= urls[u].revoked + 1
         /\ urls'[u].revoked <= 1
         /\ recorders'[u].stopCalls <= 1]_vars

\* C11: stop() is only called on a recorder that is recording, so no recorder is asked
\* to stop more than once, whatever the order of loop exit, end-of-timeline branch,
\* cleanup() and new generateVideo calls.
C11_StoppedAtMostOnce ==
  \A s \in Ids :
    /\ recorders[s].stopCalls <= 1
    /\ recorders[s].stopCalls = 1 => recorders[s].state = "inactive"

\* C11 witness: a recorder the frame loop stopped at the end of its timeline was still
\* held by the ref when a later cleanup() ran, and was not stopped again
C11_Witness ==
  \E s \in Ids :
    /\ sessions[s].pc = "ended"
    /\ sessions[s].overallTime >= sessions[s].totalDuration
    /\ recorders[s].stopCalls = 1
    /\ ~recorders[s].cancelled
    /\ urls[s].created
    /\ urls[s].revoked > 0
    /\ mediaRecorderRef = NoRef

\* C12: the virtual clock advances by exactly one step (1/30 s) per executed tick: the
\* k-th rendered frame (k >= 0) of a session is rendered for virtual time k steps, the
\* clock has advanced once per rendered frame, and a session that ran to the end of its
\* timeline rendered exactly totalDuration frames, a number fixed by N, D and T.
C12_OneStepPerTick ==
  \A s \in Ids :
    /\ sessions[s].overallTime = frames[s].count
    /\ frames[s].count > 0 => frames[s].time = frames[s].count - 1
    /\ (sessions[s].pc = "ended" /\ sessions[s].overallTime >= sessions[s].totalDuration) =>
         frames[s].count = TotalDuration(sessions[s].n, sessions[s].durationPerImage,
                                         sessions[s].transitionDuration)

\* C12 witness: a session of two images rendered its last frame, the fifth, at time 4
C12_Witness ==
  \E s \in Ids :
    /\ sessions[s].pc = "ended"
    /\ sessions[s].n = 2
    /\ frames[s].count = 5
    /\ frames[s].time = 4
    /\ sessions[s].overallTime = sessions[s].totalDuration

\* C13: a generateVideo call that passes its checks tears the previous session down
\* before it creates the new recorder: after the call no tick of the previous session is
\* pending, its recorder is not recording, and the object URL that was exposed is
\* revoked and videoUrl cleared.
C13_PreviousSessionTornDown ==
  [][(Len(sessions') = Len(sessions) + 1 /\ Len(sessions) >= 1) =>
       /\ \A k \in 1..Len(rafQueue') : rafQueue'[k] # Len(sessions)
       /\ recorders'[Len(sessions)].state # "recording"
       /\ videoUrl # NoUrl => (urls'[videoUrl].revoked >= 1 /\ videoUrl' = NoUrl)]_vars

\* virtual time 5.5 s, in frame steps
ScenarioTime == (11 * FramesPerSecond) \div 2

\* C14: in every frame that draws two images the alpha of the current image and the
\* alpha of the next image add up to 1; with 3 images, D = 5 s and T = 1 s the frame at
\* t = 5.5 s has image 0 as the current image, drawn at alpha 1/2, and draws image 1 at
\* alpha 1/2.
C14_CrossfadeAlphasSumToOne ==
  \A s \in Ids :
    /\ frames[s].drawNext =>
         frames[s].alpha[1] * frames[s].nextAlpha[2] + frames[s].nextAlpha[1] * frames[s].alpha[2]
           = frames[s].alpha[2] * frames[s].nextAlpha[2]
    /\ (settings = DefaultSettings /\ sessions[s].n = 3 /\ frames[s].time = ScenarioTime) =>
         /\ frames[s].index = 0
         /\ frames[s].drawNext
         /\ 2 * frames[s].alpha[1] = frames[s].alpha[2]
         /\ 2 * frames[s].nextAlpha[1] = frames[s].nextAlpha[2]

\* C14 witness: the frame at 5.5 s of the session of 3 images with the default settings
C14_Witness ==
  \E s \in Ids :
    /\ settings = DefaultSettings
    /\ sessions[s].n = 3
    /\ frames[s].time = ScenarioTime
    /\ frames[s].drawNext

\* a <= b for rationals
Leq(a, b) == a[1] * b[2] <= b[1] * a[2]

\* C15: while no new session is started the reported percentage stays within [0, 100]
\* and never decreases from one progress update to the next.
C15_PercentageMonotone ==
  [][Len(sessions') = Len(sessions) =>
       /\ Leq(progress.percentage, progress'.percentage)
       /\ Leq(Zero, progress'.percentage)
       /\ Leq(progress'.percentage, <<100, 1>>)]_vars

\* C16: with transitionDuration = 0 no frame draws a next image, every image is drawn at
\* alpha 1, and image i is the active image exactly for the times in [i*D, (i+1)*D): the
\* windows are disjoint and each is D long.
C16_NoTransitionWhenZero ==
  \A s \in Ids :
    LET c == sessions[s]
        D == c.durationPerImage
    IN c.transitionDuration = 0 =>
         /\ \A i \in 0..(c.n - 1) :
              /\ ImageDisplayStartTime(i, D, 0) = i * D
              /\ ImageDisplayEndTime(i, c.n, D, 0) = (i + 1) * D
         /\ frames[s].count > 0 =>
              /\ ~frames[s].drawNext
              /\ ~frames[s].fallback
              /\ frames[s].alpha = One
              /\ frames[s].index * D <= frames[s].time
              /\ frames[s].time < (frames[s].index + 1) * D

\* C16 witness: with T = 0 the third image becomes active in the frame at 2*D
C16_Witness ==
  \E s \in Ids :
    /\ sessions[s].transitionDuration = 0
    /\ sessions[s].n = 3
    /\ sessions[s].durationPerImage >= 2
    /\ frames[s].index = 2
    /\ frames[s].time = 2 * sessions[s].durationPerImage

\* C17: in a browser without MediaRecorder, or whose MediaRecorder cannot be constructed
\* for the negotiated MIME type, a generateVideo call aborts before scheduling: the
\* error is set, isGenerating is false, no recorder is started or held and no tick is
\* requested or run.  (In such a browser every step that changes anything is a
\* generateVideo call.)
C17_NoFormatAbortsBeforeScheduling ==
  [][(browser \in {"none", "neither"}) =>
       /\ error' \in {ErrNoImages, ErrNoMediaRecorder, ErrConstructor}
       /\ ~isGenerating'
       /\ sessions' = <<>>
       /\ recorders' = <<>>
       /\ mediaRecorderRef' = NoRef
       /\ rafQueue' = <<>>
       /\ frames' = <<>>
       /\ animationFrameIdRef' = NoRef]_vars

\* C17 witness: the constructor threw for the negotiated type and the call reported it
C17_Witness ==
  /\ browser = "neither"
  /\ error = ErrConstructor
  /\ generatedMimeType = "video/webm"
  /\ canvasRef # NoCanvas

\* C18: with Ken Burns enabled the zoom has the endpoints panDirection fixes: zoom-in
\* goes from 1 at progressInImage 0 to zoomFactor at 1, zoom-out from zoomFactor at 0
\* to 1 at 1.
C18_ZoomEndpoints ==
  (drawImageCall.made /\ drawImageCall.kenBurns.enabled) =>
    LET kb == drawImageCall.kenBurns
        p == drawImageCall.progressInImage
        zoom == drawImageCall.zoom
    IN /\ (kb.panDirection = "zoom-in" /\ p = Num(0)) => zoom = Num(1)
       /\ (kb.panDirection = "zoom-in" /\ p = Num(1)) => zoom = kb.zoomFactor
       /\ (kb.panDirection = "zoom-out" /\ p = Num(0)) => zoom = kb.zoomFactor
       /\ (kb.panDirection = "zoom-out" /\ p = Num(1)) => zoom = Num(1)

\* C19: the source rectangle passed to drawImage lies within the image: sx >= 0,
\* sy >= 0, sx + sWidth <= image width and sy + sHeight <= image height.
C19_SourceRectWithinImage ==
  drawImageCall.made =>
    LET r == drawImageCall.rect
    IN /\ ~Less(r.sx, Num(0))
       /\ ~Less(r.sy, Num(0))
       /\ ~Less(Num(drawImageCall.img.width), Plus(r.sx, r.sWidth))
       /\ ~Less(Num(drawImageCall.img.height), Plus(r.sy, r.sHeight))

\* C20: the recorder of a session that no caller cancelled (by cleanup() or by a new
\* generateVideo call) and that reported no error is stopped only when the session's
\* virtual clock has reached totalDuration; in particular when the session was started
\* while an earlier output was exposed.
C20_StoppedOnlyAtEndOfTimeline ==
  \A s \in Ids :
    (/\ ValidSettings
     /\ recorders[s].stopCalls > 0
     /\ ~recorders[s].errored
     /\ recorders[s].cancelled => recorders[s].stoppedByEffect) =>
      sessions[s].overallTime >= sessions[s].totalDuration

\* C21: at most one frame loop is active at any time: a call that had rendered no frame
\* when a newer session was started (it was still awaiting its images) never renders
\* one, never advances its clock and never updates the progress.
C21_OnlyOneFrameLoop ==
  [][ValidSettings =>
       \A s \in Ids :
         (s < Len(sessions) /\ frames[s].count = 0) =>
           /\ frames'[s].count = 0
           /\ sessions'[s].overallTime = 0]_vars

\* C22: the stop handler of a recorder that was torn down to make room for a newer
\* session does not alter the newer session's state: when the stop event of such a
\* recorder arrives while the newest session's recorder is recording, isGenerating
\* stays true, progress is not set to 100 / 'Video generated!' and videoUrl is not set
\* to the older recorder's URL.
C22_StaleStopHandlerIsInert ==
  [][\A s \in Ids :
       (/\ ValidSettings
        /\ s < Len(sessions)
        /\ recorders[s].cancelled
        /\ recorders[s].stopPending
        /\ ~recorders'[s].stopPending
        /\ recorders[Len(sessions)].state = "recording"
        /\ isGenerating) =>
         /\ isGenerating'
         /\ progress' = progress
         /\ videoUrl' # s]_vars

C25_ActiveIndexAdvancesByOne ==
  [][\A s \in Ids :
       (ValidTimeline(sessions[s]) /\ frames'[s].count = frames[s].count + 1) =>
         LET c == sessions[s]
             f == frames'[s]
         IN /\ frames[s].count = 0 => f.index = 0
            /\ frames[s].count > 0 => (frames[s].index <= f.index /\ f.index <= frames[s].index + 1)
            /\ sessions'[s].pc = "ended" => f.index = c.n - 1
            /\ \A j \in 0..(c.n - 1) :
                 InWindow(f.time, j, c.n, c.durationPerImage, c.transitionDuration) =>
                   f.index <= j]_vars

\* C25 witness: the last frame of a session of 3 images, where the windows of images 0
\* and 1 overlapped, has the last image active
C25_Witness ==
  \E s \in Ids :
    /\ ValidTimeline(sessions[s])
    /\ sessions[s].n = 3
    /\ sessions[s].transitionDuration >= 2
    /\ sessions[s].pc = "ended"
    /\ frames[s].count = sessions[s].totalDuration
    /\ frames[s].index = 2

\* C26: with 0 <= T < D the fade-in case (index > 0 and time into the image below
\* transitionDuration) is taken in no frame, and the active image is drawn at an alpha
\* below 1 only while it fades out to its successor: no frame consists of a single
\* partly transparent image.
C26_NeverFadesIn ==
  \A s \in Ids :
    (ValidTimeline(sessions[s]) /\ frames[s].count > 0) =>
      /\ ~FadingIn(frames[s].timeInto, frames[s].index, sessions[s].transitionDuration)
      /\ frames[s].alpha # One =>
           /\ frames[s].drawNext
           /\ FadingOut(frames[s].timeInto, frames[s].index, sessions[s].n,
                        sessions[s].durationPerImage)

\* C26 witness: the first frame in which the second image is the active one comes when
\* the transition into it is already over, and draws it opaque
C26_Witness ==
  \E s \in Ids :
    /\ ValidTimeline(sessions[s])
    /\ sessions[s].transitionDuration >= 2
    /\ frames[s].index = 1
    /\ ~frames[s].fallback
    /\ frames[s].timeInto = 2 * sessions[s].transitionDuration
    /\ frames[s].alpha = One

\* C27: every frame that renders makes its canvas calls in this order: the canvas is
\* filled with black, the current image is drawn at its alpha, and then, if and only if
\* the current image is fading out to a next image, the next image is drawn at 1 minus
\* that alpha; the next image is never drawn before the current one.
C27_DrawingOrder ==
  \A s \in Ids :
    frames[s].count > 0 =>
      LET f == frames[s]
          c == sessions[s]
          fading == FadingOut(f.timeInto, f.index, c.n, c.durationPerImage)
      IN /\ Len(f.ops) = (IF fading THEN 3 ELSE 2)
         /\ f.ops[1] = FillRect(Black)
         /\ f.ops[2] = DrawImage(f.index, f.alpha)
         /\ fading =>
              /\ f.ops[3].op = "drawImage"
              /\ f.ops[3].image = f.index + 1
              /\ f.ops[3].alpha[1] * f.alpha[2] = (f.alpha[2] - f.alpha[1]) * f.ops[3].alpha[2]

\* C27 witness: a frame of a crossfade, with three canvas calls and the current image at
\* an alpha strictly between 0 and 1
C27_Witness ==
  \E s \in Ids :
    /\ Len(frames[s].ops) = 3
    /\ frames[s].alpha[1] > 0
    /\ frames[s].alpha[1] < frames[s].alpha[2]
    /\ frames[s].ops[3].image = 1

\* the progress on display was reported by a frame of session s
ReportedByFrameOf(s) ==
  /\ frames[s].count > 0
  /\ progress.currentTask.kind = "Encoding frame for image"

\* C28 as claimed: the percentage a frame reports is min(100, 100 * t / totalDuration)
\* for the virtual time t of the frame it rendered (progress before the clock advances),
\* and the label names that frame's image, counted from 1, of N.
C28_PercentageOfFrameTime ==
  \A s \in Ids :
    ReportedByFrameOf(s) =>
      /\ progress.percentage[1] * sessions[s].totalDuration
           = 100 * Min(frames[s].time, sessions[s].totalDuration) * progress.percentage[2]
      /\ progress.currentTask.image = frames[s].index + 1
      /\ progress.currentTask.of = sessions[s].n

\* C28 amended: the clock advances before the progress is reported, so the percentage
\* a frame reports is min(100, 100 * (t + 1) / totalDuration) for the virtual time t (in
\* frame steps) of the frame it rendered: it counts the frame just rendered and is 100
\* in the last frame; the label names that frame's image, counted from 1, of N.
C28_PercentageOfAdvancedTime ==
  \A s \in Ids :
    ReportedByFrameOf(s) =>
      /\ progress.percentage[1] * sessions[s].totalDuration
           = 100 * Min(frames[s].time + 1, sessions[s].totalDuration) * progress.percentage[2]
      /\ progress.currentTask.image = frames[s].index + 1
      /\ progress.currentTask.of = sessions[s].n

\* C28 witness: the frame at time 3 of a session of 3 images reports 4 steps' worth of
\* progress, below 100, for its second image
C28_Witness ==
  \E s \in Ids :
    /\ ReportedByFrameOf(s)
    /\ sessions[s].n = 3
    /\ frames[s].time = 3
    /\ frames[s].index = 1
    /\ progress.percentage = <<400, sessions[s].totalDuration>>
    /\ progress.currentTask.image = 2

====
